---- MODULE Spec2Model ----
(***************************************************************************)
(* Interaction core of the grid widget: TableView's pointer/document       *)
(* listeners (src/src/tableView.js) and EditorManager's editor lifecycle   *)
(* and key dispatch (src/src/editorManager.js).                            *)
(*                                                                         *)
(* Every listener or public method is one action.  A handler is written as *)
(* an operator from a state record to a state record, so that a handler    *)
(* and everything it calls is one step.  The calls a handler makes on its  *)
(* collaborators (hooks, selection, editor) are logged, in order, in the  *)
(* trace field of the record it returns; the trace is not program state.   *)
(***************************************************************************)
EXTENDS Integers, Sequences, FiniteSets, TLC

\* ------------------------------------------------------------------ bounds
NumRows == 2
MaxPending == 1

Rows == 0..(NumRows - 1)
Cols == {0, 1}
Cells == Rows \X Cols

VARIABLES
  range,         \* selection.selectedRange.current(), or NoRange
  inProgress,    \* selection.isInProgress()
  listening,     \* instance.isListening()
  mouseDown,     \* priv.mouseDown (void 0 at construction: falsy)
  activeWt,      \* priv.activeWt
  activeEditor,  \* EditorManager.activeEditor, or NoEditor
  lock,          \* EditorManager.lock
  destroyed,     \* EditorManager.destroyed
  selectionMouseDown  \* priv.selectionMouseDown

VARIABLES
  calc,          \* the viewport calculator handed to the two overrides
  totalRows,     \* instance.countRows() as the row override reads it
  totalCols      \* instance.countCols() as the column override reads it

viewportVars == <<calc, totalRows, totalCols>>

vars == <<range, inProgress, listening, mouseDown, activeWt, activeEditor,
          lock, destroyed, selectionMouseDown>>

\* ------------------------------------------------------------ state record
wt == "master"
Surfaces == {"master", "top"}

NoRange == [from |-> <<-1, -1>>, to |-> <<-1, -1>>, highlight |-> <<-1, -1>>]
NoEditor == [id |-> 0, state |-> "CLOSED", readOnly |-> FALSE, cbs |-> 0]

Cur ==
  [range |-> range, inProgress |-> inProgress, listening |-> listening,
   mouseDown |-> mouseDown, activeWt |-> activeWt,
   activeEditor |-> activeEditor, lock |-> lock, destroyed |-> destroyed,
   selectionMouseDown |-> selectionMouseDown, trace |-> <<>>]

Log(s, call) == [s EXCEPT !.trace = Append(@, call)]

\* a call is logged as <<name, arguments...>>; getEditorInstance is logged
\* with the state of the editor that the new instance replaces
Called(tr, name) == \E i \in 1..Len(tr) : tr[i][1] = name

\* ----------------------------------------------------- cell metadata
\* Cell (0,1) is read-only, cell (1,1) has no editor (editor: false).
cellReadOnly(coords) == coords = <<0, 1>>
getCellEditor(coords) == coords # <<1, 1>>

\* ------------------------------------------------------------- Editor
isOpened(ed) == ed.state # "CLOSED"
isWaiting(ed) == ed.state = "WAITING"

beginEditing(s, newInitialValue) ==
  LET s1 == Log(s, <<"beginEditing", newInitialValue>>)
  IN IF s1.activeEditor.state = "CLOSED"
       THEN [s1 EXCEPT !.activeEditor.state = "OPEN"]
       ELSE s1

\* finishEditing(revert, modifierHeld, callback).  async: the commit is
\* asynchronous (a validation is pending) and leaves the editor WAITING.
finishEditing(s, revert, ctrlDown, hasCb, async) ==
  LET s1 == Log(s, <<"finishEditing", revert, ctrlDown, hasCb>>)
      s2 == IF hasCb THEN [s1 EXCEPT !.activeEditor.cbs = @ + 1] ELSE s1
  IN CASE s2.activeEditor.state = "WAITING" -> s2
       [] s2.activeEditor.state = "CLOSED" -> s2
       [] OTHER ->
            IF revert THEN [s2 EXCEPT !.activeEditor.state = "CLOSED"]
            ELSE IF async THEN [s2 EXCEPT !.activeEditor.state = "WAITING"]
            ELSE [s2 EXCEPT !.activeEditor.state = "CLOSED"]

\* ------------------------------------------------------ EditorManager
isEditorOpened(s) == s.activeEditor # NoEditor /\ isOpened(s.activeEditor)

\* closeEditor without its `else if (callback)' branch
closeEditor_DropsCallback(s, restoreOriginalValue, ctrlDown, hasCb, async) ==
  IF s.activeEditor # NoEditor
    THEN finishEditing(s, restoreOriginalValue, ctrlDown, hasCb, async)
    ELSE s

closeEditor(s, restoreOriginalValue, ctrlDown, hasCb, async) ==
  IF s.activeEditor # NoEditor
    THEN finishEditing(s, restoreOriginalValue, ctrlDown, hasCb, async)
    ELSE IF hasCb THEN Log(s, <<"callback", FALSE>>) ELSE s

closeEditorAndSaveChanges(s, ctrlDown, async) ==
  closeEditor(s, FALSE, ctrlDown, FALSE, async)

\* closeEditorAndRestoreOriginalValue that saves instead of reverting
closeEditorAndRestoreOriginalValue_Saves(s, ctrlDown, async) ==
  closeEditor(s, FALSE, ctrlDown, FALSE, async)

closeEditorAndRestoreOriginalValue(s, ctrlDown, async) ==
  closeEditor(s, TRUE, ctrlDown, FALSE, async)

\* destroyEditor without its test of the lock
destroyEditor_IgnoresLock(s, revertOriginal, async) ==
  closeEditor(s, revertOriginal, FALSE, FALSE, async)

destroyEditor(s, revertOriginal, async) ==
  IF ~s.lock THEN closeEditor(s, revertOriginal, FALSE, FALSE, async) ELSE s

getEditorInstance(s) ==
  [id |-> IF s.activeEditor.id = 1 THEN 2 ELSE 1, state |-> "CLOSED",
   readOnly |-> cellReadOnly(s.range.highlight), cbs |-> 0]

\* prepareEditor without its test of the lock
prepareEditor_IgnoresLock(s) ==
  IF s.activeEditor # NoEditor /\ isWaiting(s.activeEditor)
    THEN closeEditor(s, FALSE, FALSE, TRUE, FALSE)
  ELSE IF s.range = NoRange THEN Log(s, <<"TypeError">>)
  ELSE IF getCellEditor(s.range.highlight)
    THEN Log(Log([s EXCEPT !.activeEditor = getEditorInstance(s)],
                 <<"getEditorInstance", s.activeEditor.state>>),
             <<"prepare">>)
    ELSE [s EXCEPT !.activeEditor = NoEditor]

prepareEditor(s) ==
  IF s.lock THEN s
  ELSE IF s.activeEditor # NoEditor /\ isWaiting(s.activeEditor)
    THEN closeEditor(s, FALSE, FALSE, TRUE, FALSE)
  ELSE IF s.range = NoRange THEN Log(s, <<"TypeError">>)
  ELSE IF getCellEditor(s.range.highlight)
    THEN Log(Log([s EXCEPT !.activeEditor = getEditorInstance(s)],
                 <<"getEditorInstance", s.activeEditor.state>>),
             <<"prepare">>)
    ELSE [s EXCEPT !.activeEditor = NoEditor]

\* the continuation without its test of dataSaved
prepareContinuation_Always(s, dataSaved) == prepareEditor(s)

\* the continuation prepareEditor hands to closeEditor
prepareContinuation(s, dataSaved) ==
  IF dataSaved THEN prepareEditor(s) ELSE s

\* ---------------------------------------------------------- Selection
isSelected(s) == s.range # NoRange

Clamp(v, lo, hi) == IF v < lo THEN lo ELSE IF v > hi THEN hi ELSE v

countRows == NumRows
countCols == Cardinality(Cols)

clampCoords(coords) ==
  <<Clamp(coords[1], 0, countRows - 1), Clamp(coords[2], 0, countCols - 1)>>

\* The selection-change hook: the editor of the old cell is closed and the
\* editor of the new highlight is prepared.
refreshBorders(s, async) ==
  LET s1 == destroyEditor(s, FALSE, async)
  IN IF isSelected(s1) THEN prepareEditor(s1) ELSE s1

setRangeEnd(s, coords, async) ==
  IF ~isSelected(s) THEN s
  ELSE refreshBorders(
         Log([s EXCEPT !.range.to = coords, !.inProgress = TRUE],
             <<"setRangeEnd", coords>>), async)

setRangeStart(s, coords, async) ==
  setRangeEnd(
    Log([s EXCEPT !.range = [from |-> coords, to |-> coords,
                             highlight |-> coords]],
        <<"setRangeStart", coords>>), coords, async)

transformStart(s, rowDelta, colDelta, force, async) ==
  IF ~isSelected(s) THEN s
  ELSE setRangeStart(
         Log(s, <<"transformStart", rowDelta, colDelta, force>>),
         clampCoords(<<s.range.highlight[1] + rowDelta,
                       s.range.highlight[2] + colDelta>>), async)

transformEnd(s, rowDelta, colDelta, async) ==
  IF ~isSelected(s) THEN s
  ELSE setRangeEnd(
         Log(s, <<"transformEnd", rowDelta, colDelta>>),
         clampCoords(<<s.range.to[1] + rowDelta,
                       s.range.to[2] + colDelta>>), async)

finish(s) == Log([s EXCEPT !.inProgress = FALSE], <<"finish">>)

deselect(s, async) ==
  IF ~isSelected(s) THEN s
  ELSE refreshBorders(
         Log([s EXCEPT !.range = NoRange, !.inProgress = FALSE],
             <<"deselect">>), async)

selectAll(s, async) ==
  refreshBorders(
    Log([s EXCEPT !.range = [from |-> <<0, 0>>,
                             to |-> <<countRows - 1, countCols - 1>>,
                             highlight |-> <<0, 0>>]],
        <<"selectAll">>), async)

\* ------------------------------------------------ EditorManager: keys
enterMoves == [row |-> 1, col |-> 0]
tabMoves == [row |-> 0, col |-> 1]

\* moveSelectionAfterEnter without its test of shiftKey
moveSelectionAfterEnter_IgnoresShift(s, shiftKey, async) ==
  transformStart(s, enterMoves.row, enterMoves.col, TRUE, async)

moveSelectionAfterEnter(s, shiftKey, async) ==
  IF shiftKey
    THEN transformStart(s, -enterMoves.row, -enterMoves.col, FALSE, async)
    ELSE transformStart(s, enterMoves.row, enterMoves.col, TRUE, async)

moveSelectionUp(s, shiftKey, async) ==
  IF shiftKey THEN transformEnd(s, -1, 0, async)
  ELSE transformStart(s, -1, 0, FALSE, async)

\* moveSelectionDown moving the wrong way
moveSelectionDown_Reversed(s, shiftKey, async) ==
  moveSelectionUp(s, shiftKey, async)

moveSelectionDown(s, shiftKey, async) ==
  IF shiftKey THEN transformEnd(s, 1, 0, async)
  ELSE transformStart(s, 1, 0, FALSE, async)

\* moveSelectionRight without its test of shiftKey
moveSelectionRight_IgnoresShift(s, shiftKey, async) ==
  transformStart(s, 0, 1, FALSE, async)

moveSelectionRight(s, shiftKey, async) ==
  IF shiftKey THEN transformEnd(s, 0, 1, async)
  ELSE transformStart(s, 0, 1, FALSE, async)

moveSelectionLeft(s, shiftKey, async) ==
  IF shiftKey THEN transformEnd(s, 0, -1, async)
  ELSE transformStart(s, 0, -1, FALSE, async)

\* openEditor without its test of readOnly
openEditor_IgnoresReadOnly(s, newInitialValue, isEnter, async) ==
  IF s.activeEditor = NoEditor THEN s ELSE beginEditing(s, newInitialValue)

\* openEditor(newInitialValue, event); newInitialValue is "" or "null";
\* isEnter: event.keyCode === ENTER
openEditor(s, newInitialValue, isEnter, async) ==
  IF s.activeEditor = NoEditor THEN s
  ELSE IF s.activeEditor.readOnly
    THEN IF isEnter THEN moveSelectionAfterEnter(s, FALSE, async) ELSE s
    ELSE beginEditing(s, newInitialValue)

enableFullEditMode(s) ==
  IF s.activeEditor # NoEditor THEN Log(s, <<"enableFullEditMode">>) ELSE s

\* helpers/unicode: the keys that never start typing
MetaKeys ==
  {"ARROW_UP", "ARROW_DOWN", "ARROW_LEFT", "ARROW_RIGHT", "TAB", "BACKSPACE",
   "DELETE", "F2", "ENTER", "ESCAPE", "HOME", "END", "PAGE_UP", "PAGE_DOWN"}
isMetaKey(keyCode) == keyCode \in MetaKeys
isCtrlMetaKey(keyCode) == keyCode = "CONTROL"

KeyCodes == MetaKeys \cup {"A", "X", "CONTROL", "IME_229"}

rangeModifier(s, shiftKey, coords, async) ==
  IF shiftKey THEN setRangeEnd(s, coords, async)
  ELSE setRangeStart(s, coords, async)

\* the switch of onKeyDown
keyDispatch(s, e) ==
  LET ctrlDown == e.ctrl /\ ~e.alt
      commitFirst ==
        IF isEditorOpened(s) /\ ~isWaiting(s.activeEditor)
          THEN closeEditorAndSaveChanges(s, ctrlDown, e.async) ELSE s
  IN CASE e.keyCode = "A" ->
            IF ~isEditorOpened(s) /\ ctrlDown THEN selectAll(s, e.async)
            ELSE s
       [] e.keyCode = "ARROW_UP" ->
            moveSelectionUp(commitFirst, e.shift, e.async)
       [] e.keyCode = "ARROW_DOWN" ->
            moveSelectionDown(commitFirst, e.shift, e.async)
       [] e.keyCode = "ARROW_RIGHT" ->
            moveSelectionRight(commitFirst, e.shift, e.async)
       [] e.keyCode = "ARROW_LEFT" ->
            moveSelectionLeft(commitFirst, e.shift, e.async)
       [] e.keyCode = "TAB" ->
            IF e.shift
              THEN transformStart(s, -tabMoves.row, -tabMoves.col, FALSE,
                                  e.async)
              ELSE transformStart(s, tabMoves.row, tabMoves.col, TRUE, e.async)
       [] e.keyCode \in {"BACKSPACE", "DELETE"} ->
            prepareEditor(Log(s, <<"emptySelectedCells">>))
       [] e.keyCode = "F2" ->
            openEditor(enableFullEditMode(s), "null", FALSE, e.async)
       [] e.keyCode = "ENTER" ->
            IF isEditorOpened(s)
              THEN moveSelectionAfterEnter(
                     IF s.activeEditor # NoEditor
                        /\ s.activeEditor.state # "WAITING"
                       THEN closeEditorAndSaveChanges(s, ctrlDown, e.async)
                       ELSE s,
                     e.shift, e.async)
            ELSE IF e.enterBeginsEditing
              THEN openEditor(enableFullEditMode(s), "null", TRUE, e.async)
            ELSE moveSelectionAfterEnter(s, e.shift, e.async)
       [] e.keyCode = "ESCAPE" ->
            IF isEditorOpened(s)
              THEN Log(closeEditorAndRestoreOriginalValue(s, ctrlDown,
                                                          e.async),
                       <<"focus">>)
              ELSE s
       [] e.keyCode = "HOME" ->
            IF e.ctrl
              THEN rangeModifier(s, e.shift, <<0, s.range.from[2]>>, e.async)
              ELSE rangeModifier(s, e.shift, <<s.range.from[1], 0>>, e.async)
       [] e.keyCode = "END" ->
            IF e.ctrl
              THEN rangeModifier(s, e.shift,
                                 <<countRows - 1, s.range.from[2]>>, e.async)
              ELSE rangeModifier(s, e.shift,
                                 <<s.range.from[1], countCols - 1>>, e.async)
       [] e.keyCode = "PAGE_UP" ->
            transformStart(s, -e.countVisibleRows, 0, FALSE, e.async)
       [] e.keyCode = "PAGE_DOWN" ->
            transformStart(s, e.countVisibleRows, 0, FALSE, e.async)
       [] OTHER -> s

\* onKeyDown whose typing path does not test isMetaKey
onKeyDown_TypingOnMetaKey(s, e) ==
  IF ~s.listening THEN s
  ELSE LET s1 == Log(s, <<"runHooks", "beforeKeyDown">>)
           ctrlDown == e.ctrl /\ ~e.alt
       IN IF s1.destroyed \/ e.keyCode = "IME_229" THEN s1
          ELSE IF e.hook = "stop" THEN s1
          ELSE IF ~isSelected(s1) THEN s1
          ELSE IF /\ s1.activeEditor # NoEditor
                  /\ ~isWaiting(s1.activeEditor)
                  /\ ~isCtrlMetaKey(e.keyCode)
                  /\ ~ctrlDown
                  /\ ~isEditorOpened(s1)
            THEN openEditor(s1, "", FALSE, e.async)
          ELSE keyDispatch(s1, e)

\* onKeyDown without its `nothing is selected' test
onKeyDown_NoSelectionTest(s, e) ==
  IF ~s.listening THEN s
  ELSE LET s1 == Log(s, <<"runHooks", "beforeKeyDown">>)
           ctrlDown == e.ctrl /\ ~e.alt
       IN IF s1.destroyed \/ e.keyCode = "IME_229" THEN s1
          ELSE IF e.hook = "stop" THEN s1
          ELSE IF /\ s1.activeEditor # NoEditor
                  /\ ~isWaiting(s1.activeEditor)
                  /\ ~isMetaKey(e.keyCode)
                  /\ ~isCtrlMetaKey(e.keyCode)
                  /\ ~ctrlDown
                  /\ ~isEditorOpened(s1)
            THEN openEditor(s1, "", FALSE, e.async)
          ELSE keyDispatch(s1, e)

\* onKeyDown whose typing path opens the editor on the cell's own value
onKeyDown_TypingKeepsValue(s, e) ==
  IF ~s.listening THEN s
  ELSE LET s1 == Log(s, <<"runHooks", "beforeKeyDown">>)
           ctrlDown == e.ctrl /\ ~e.alt
       IN IF s1.destroyed \/ e.keyCode = "IME_229" THEN s1
          ELSE IF e.hook = "stop" THEN s1
          ELSE IF ~isSelected(s1) THEN s1
          ELSE IF /\ s1.activeEditor # NoEditor
                  /\ ~isWaiting(s1.activeEditor)
                  /\ ~isMetaKey(e.keyCode)
                  /\ ~isCtrlMetaKey(e.keyCode)
                  /\ ~ctrlDown
                  /\ ~isEditorOpened(s1)
            THEN openEditor(s1, "null", FALSE, e.async)
          ELSE keyDispatch(s1, e)

\* e.hook: what the beforeKeyDown listeners do ("stop": one of them stops
\* the immediate propagation of the event)
onKeyDown(s, e) ==
  IF ~s.listening THEN s
  ELSE LET s1 == Log(s, <<"runHooks", "beforeKeyDown">>)
           ctrlDown == e.ctrl /\ ~e.alt
       IN IF s1.destroyed \/ e.keyCode = "IME_229" THEN s1
          ELSE IF e.hook = "stop" THEN s1
          ELSE IF ~isSelected(s1) THEN s1
          ELSE IF /\ s1.activeEditor # NoEditor
                  /\ ~isWaiting(s1.activeEditor)
                  /\ ~isMetaKey(e.keyCode)
                  /\ ~isCtrlMetaKey(e.keyCode)
                  /\ ~ctrlDown
                  /\ ~isEditorOpened(s1)
            THEN openEditor(s1, "", FALSE, e.async)
          ELSE keyDispatch(s1, e)

\* the document keydown listener
documentKeyDown(s, e) ==
  IF ~s.destroyed
    THEN onKeyDown(Log(s, <<"runHooks", "afterDocumentKeyDown">>), e)
    ELSE s

\* the compositionstart listener without its test of the destroyed flag
compositionStart_IgnoresDestroyed(s) ==
  IF /\ s.activeEditor # NoEditor
     /\ ~isOpened(s.activeEditor)
     /\ s.listening
    THEN openEditor(s, "", FALSE, FALSE)
    ELSE s

\* the document compositionstart listener
compositionStart(s) ==
  IF /\ ~s.destroyed
     /\ s.activeEditor # NoEditor
     /\ ~isOpened(s.activeEditor)
     /\ s.listening
    THEN openEditor(s, "", FALSE, FALSE)
    ELSE s

onDblClick(s, nodeName) ==
  IF nodeName = "TD" THEN openEditor(enableFullEditMode(s), "null", FALSE, FALSE)
  ELSE s

lockEditor(s) == [s EXCEPT !.lock = TRUE]
unlockEditor(s) == [s EXCEPT !.lock = FALSE]

\* ------------------------------------------------- TableView: pointer
listen(s) == Log([s EXCEPT !.listening = TRUE], <<"listen">>)
unlisten(s) == Log([s EXCEPT !.listening = FALSE], <<"unlisten">>)

mainViewIsActive(s) == wt = s.activeWt

\* The selection-update routine.  e.cell: the `before' listeners set
\* blockCalculations.cell; a pointer-down starts a new range at the cell, a
\* pointer-over moves the open end of the range to the cell.
handleMouseEvent(s, type, e) ==
  LET s1 == Log(s, <<"handleMouseEvent", type>>)
  IN IF e.cell THEN s1
     ELSE IF type = "mousedown" THEN setRangeStart(s1, e.coords, e.async)
     ELSE setRangeEnd(s1, e.coords, e.async)

\* e.hooks: what the listeners of the two hooks do: "ok", "stop" (a `before'
\* listener stops the immediate propagation), "throwBefore", "throwAfter"
\* (a listener of that hook throws, which ends the handler there).
onCellMouseDown(s, e) ==
  LET s1 == Log([listen(s) EXCEPT !.activeWt = e.wt, !.mouseDown = TRUE],
                <<"runHooks", "beforeOnCellMouseDown">>)
  IN IF e.hooks \in {"throwBefore", "stop"} THEN s1
     ELSE LET s2 == Log(handleMouseEvent(s1, "mousedown", e),
                        <<"runHooks", "afterOnCellMouseDown">>)
          IN IF e.hooks = "throwAfter" THEN s2
             ELSE [s2 EXCEPT !.activeWt = wt]

onCellContextMenu(s, e) ==
  LET s0 == [s EXCEPT !.activeWt = e.wt, !.mouseDown = FALSE]
      s1 == Log(IF s0.inProgress THEN finish(s0) ELSE s0,
                <<"runHooks", "beforeOnCellContextMenu">>)
  IN IF e.hooks \in {"throwBefore", "stop"} THEN s1
     ELSE LET s2 == Log(s1, <<"runHooks", "afterOnCellContextMenu">>)
          IN IF e.hooks = "throwAfter" THEN s2
             ELSE [s2 EXCEPT !.activeWt = wt]

onCellMouseOut(s, e) ==
  LET s1 == Log([s EXCEPT !.activeWt = e.wt],
                <<"runHooks", "beforeOnCellMouseOut">>)
  IN IF e.hooks \in {"throwBefore", "stop"} THEN s1
     ELSE LET s2 == Log(s1, <<"runHooks", "afterOnCellMouseOut">>)
          IN IF e.hooks = "throwAfter" THEN s2
             ELSE [s2 EXCEPT !.activeWt = wt]

\* onCellMouseOver updating the selection without testing priv.mouseDown
onCellMouseOver_AlwaysUpdates(s, e) ==
  LET s1 == Log([s EXCEPT !.activeWt = e.wt],
                <<"runHooks", "beforeOnCellMouseOver">>)
  IN IF e.hooks \in {"throwBefore", "stop"} THEN s1
     ELSE LET s2 == Log(handleMouseEvent(s1, "mouseover", e),
                        <<"runHooks", "afterOnCellMouseOver">>)
          IN IF e.hooks = "throwAfter" THEN s2
             ELSE [s2 EXCEPT !.activeWt = wt]

onCellMouseOver(s, e) ==
  LET s1 == Log([s EXCEPT !.activeWt = e.wt],
                <<"runHooks", "beforeOnCellMouseOver">>)
  IN IF e.hooks \in {"throwBefore", "stop"} THEN s1
     ELSE LET s2 == Log(IF s1.mouseDown
                          THEN handleMouseEvent(s1, "mouseover", e)
                          ELSE s1,
                        <<"runHooks", "afterOnCellMouseOver">>)
          IN IF e.hooks = "throwAfter" THEN s2
             ELSE [s2 EXCEPT !.activeWt = wt]

onCellMouseUp(s, e) ==
  LET s1 == Log([s EXCEPT !.activeWt = e.wt],
                <<"runHooks", "beforeOnCellMouseUp">>)
  IN IF e.hooks = "throwBefore" THEN s1
     ELSE LET s2 == Log(s1, <<"runHooks", "afterOnCellMouseUp">>)
          IN IF e.hooks = "throwAfter" THEN s2
             ELSE [s2 EXCEPT !.activeWt = wt]

\* ------------------------------------------ TableView: text selection
\* instance.getSelectedLast(): [row, col, rowEnd, colEnd] of the last
\* range, <<>> when nothing is selected
getSelectedLast(s) ==
  IF isSelected(s)
    THEN <<s.range.from[1], s.range.from[2], s.range.to[1], s.range.to[2]>>
    ELSE <<>>

\* isSelectedOnlyCell comparing the rows only
isSelectedOnlyCell_RowsOnly(s) ==
  LET sel == getSelectedLast(s)
  IN sel # <<>> /\ sel[1] = sel[3]

isSelectedOnlyCell(s) ==
  LET sel == getSelectedLast(s)
  IN sel # <<>> /\ sel[1] = sel[3] /\ sel[2] = sel[4]

isCellEdited(s) == s.activeEditor # NoEditor /\ isOpened(s.activeEditor)

\* settings.fragmentSelection: false, true or 'cell'
FragmentSelection == {"false", "true", "cell"}

\* el.isInput: isInput(el); el.isChildOfTableBody: isChildOf(el, spreader)
Targets == [isInput : BOOLEAN, isChildOfTableBody : BOOLEAN]

isTextSelectionAllowed(s, el, fragmentSelection) ==
  IF el.isInput THEN TRUE
  ELSE IF fragmentSelection = "true" /\ el.isChildOfTableBody THEN TRUE
  ELSE IF /\ fragmentSelection = "cell"
          /\ isSelectedOnlyCell(s)
          /\ el.isChildOfTableBody
    THEN TRUE
  ELSE IF /\ fragmentSelection = "false"
          /\ isCellEdited(s)
          /\ isSelectedOnlyCell(s)
    THEN TRUE
  ELSE FALSE

\* the root element's mousedown listener
rootMouseDown(s, el, fragmentSelection) ==
  LET s1 == [s EXCEPT !.selectionMouseDown = TRUE]
  IN IF ~isTextSelectionAllowed(s1, el, fragmentSelection)
       THEN Log(Log(Log(s1, <<"clearTextSelection">>), <<"preventDefault">>),
                <<"focus">>)
       ELSE s1

\* the root element's mouseup listener
rootMouseUp(s) == [s EXCEPT !.selectionMouseDown = FALSE]

\* rootMouseMove clearing the text selection whatever fragmentSelection is
rootMouseMove_AlwaysClears(s, el, fragmentSelection) ==
  IF s.selectionMouseDown /\ ~isTextSelectionAllowed(s, el, fragmentSelection)
    THEN Log(Log(s, <<"clearTextSelection">>), <<"preventDefault">>)
    ELSE s

\* the root element's mousemove listener
rootMouseMove(s, el, fragmentSelection) ==
  IF s.selectionMouseDown /\ ~isTextSelectionAllowed(s, el, fragmentSelection)
    THEN Log(IF fragmentSelection # "false"
               THEN Log(s, <<"clearTextSelection">>)
               ELSE s,
             <<"preventDefault">>)
    ELSE s

\* ------------------------------------------- TableView: document scope
isLeftClick(button) == button = "left"
isRightClick(button) == button = "right"

\* e.outsideInput: isOutsideInput(document.activeElement)
documentMouseUp(s, e) ==
  LET s1 == IF s.inProgress /\ isLeftClick(e.button) THEN finish(s) ELSE s
      s2 == [s1 EXCEPT !.mouseDown = FALSE]
  IN IF e.outsideInput \/ (~isSelected(s2) /\ ~isRightClick(e.button))
       THEN unlisten(s2) ELSE s2

documentContextMenu(s, e) ==
  IF s.inProgress /\ isRightClick(e.button)
    THEN [finish(s) EXCEPT !.mouseDown = FALSE]
    ELSE s

documentTouchEnd(s) ==
  [(IF s.inProgress THEN finish(s) ELSE s) EXCEPT !.mouseDown = FALSE]

documentKeyUp(s, shiftKey) ==
  IF s.inProgress /\ ~shiftKey THEN finish(s) ELSE s

\* The document: html > body > root element > holder > td, an element
\* beside the root element, and an element detached from the document.
Nodes == {"html", "body", "rootElement", "holder", "td", "aside", "detached"}
parentNode(n) ==
  CASE n = "td" -> "holder"
    [] n = "holder" -> "rootElement"
    [] n = "rootElement" -> "body"
    [] n = "aside" -> "body"
    [] n = "body" -> "html"
    [] OTHER -> "null"

\* the walk below without its `next === rootElement' test
RECURSIVE walkToDocument_NoRootTest(_, _)
walkToDocument_NoRootTest(next, isTargetWebComponent) ==
  IF next = "html" THEN TRUE
  ELSE IF next = "null" THEN isTargetWebComponent
  ELSE walkToDocument_NoRootTest(parentNode(next), isTargetWebComponent)

\* the while loop of the mousedown listener: TRUE when it ends without a
\* return
RECURSIVE walkToDocument(_, _)
walkToDocument(next, isTargetWebComponent) ==
  IF next = "html" THEN TRUE
  ELSE IF next = "null" THEN isTargetWebComponent
  ELSE IF next = "rootElement" THEN FALSE
  ELSE walkToDocument(parentNode(next), isTargetWebComponent)

\* e.probeX, e.probeY: the two elementFromPoint probes return the holder
isOutsideClick(s, e) ==
  IF s.mouseDown THEN FALSE
  ELSE IF e.target = "holder" THEN e.probeX /\ e.probeY
  ELSE walkToDocument(e.target, e.isTargetWebComponent)

deselectCell(s, async) == deselect(Log(s, <<"deselectCell">>), async)

documentMouseDown(s, e) ==
  IF ~isOutsideClick(s, e) THEN s
  ELSE IF e.outsideClickDeselects THEN deselectCell(s, e.async)
  ELSE destroyEditor(Log(s, <<"destroyEditor">>), FALSE, e.async)

\* ------------------------------------- Editor: an asynchronous commit ends
RECURSIVE fireCallbacks(_, _, _)
fireCallbacks(s, n, dataSaved) ==
  IF n = 0 THEN s
  ELSE fireCallbacks(
         prepareContinuation(Log(s, <<"callback", dataSaved>>), dataSaved),
         n - 1, dataSaved)

commitResolved(s, dataSaved) ==
  fireCallbacks([s EXCEPT !.activeEditor.state = "CLOSED",
                          !.activeEditor.cbs = 0],
                s.activeEditor.cbs, dataSaved)

\* ------------------------------------------------------------- inputs
Hooks == {"ok", "stop", "throwBefore", "throwAfter"}

\* inputs that cannot matter to the handler are kept at one value; a
\* filtered set is written {x : x \in ...}, which enumerates it once
PointerInputs ==
  {x : x \in
    {e \in [wt : Surfaces, coords : Cells, hooks : Hooks, cell : BOOLEAN,
            async : BOOLEAN] :
       /\ e.hooks \in {"stop", "throwBefore"}
            => e.coords = <<0, 0>> /\ ~e.cell
       /\ (e.cell \/ e.hooks \in {"stop", "throwBefore"}) => ~e.async}}

HoverInputs == [wt : Surfaces, hooks : Hooks]

NoCommitKeys ==
  {"A", "X", "CONTROL", "IME_229", "BACKSPACE", "DELETE", "F2", "ESCAPE"}

\* shift, ctrl (ctrlKey or metaKey) and alt are enumerated for the keys
\* whose handling reads them
ShiftKeys ==
  {"ARROW_UP", "ARROW_DOWN", "ARROW_LEFT", "ARROW_RIGHT", "TAB", "ENTER",
   "HOME", "END"}
CtrlKeys ==
  {"A", "X", "HOME", "END", "ARROW_UP", "ARROW_DOWN", "ARROW_LEFT",
   "ARROW_RIGHT", "ENTER", "ESCAPE"}

KeyInputs ==
  {x : x \in
    {e \in [keyCode : KeyCodes, shift : BOOLEAN, ctrl : BOOLEAN, alt : BOOLEAN,
            hook : {"ok", "stop"}, async : BOOLEAN,
            enterBeginsEditing : BOOLEAN, countVisibleRows : 1..NumRows] :
       /\ e.shift => e.keyCode \in ShiftKeys
       /\ e.ctrl => e.keyCode \in CtrlKeys
       /\ e.alt => e.ctrl /\ e.keyCode \in {"A", "X"}
       /\ e.async => e.keyCode \notin NoCommitKeys
       /\ e.enterBeginsEditing => e.keyCode = "ENTER"
       /\ e.countVisibleRows # 1 => e.keyCode \in {"PAGE_UP", "PAGE_DOWN"}
       /\ e.hook = "stop"
            => /\ e.keyCode = "X"
               /\ ~(e.shift \/ e.ctrl \/ e.async)}}

MouseDownInputs ==
  {x : x \in
    {e \in [target : Nodes, isTargetWebComponent : BOOLEAN, probeX : BOOLEAN,
            probeY : BOOLEAN, outsideClickDeselects : BOOLEAN, async : BOOLEAN] :
       /\ e.isTargetWebComponent => e.target = "detached"
       /\ ~(e.probeX /\ e.probeY) => e.target = "holder"}}

CloseInputs ==
  {x : x \in
    {e \in [revert : BOOLEAN, async : BOOLEAN] : e.revert => ~e.async}}

\* ------------------------------------------------------------ actions
Set(s) ==
  /\ s.activeEditor.cbs <= MaxPending
  /\ range' = s.range
  /\ inProgress' = s.inProgress
  /\ listening' = s.listening
  /\ mouseDown' = s.mouseDown
  /\ activeWt' = s.activeWt
  /\ activeEditor' = s.activeEditor
  /\ lock' = s.lock
  /\ destroyed' = s.destroyed
  /\ selectionMouseDown' = s.selectionMouseDown
  /\ UNCHANGED viewportVars

\* a commit can only be asynchronous when there is an open editor to commit
CanCommit(e) == e.async => activeEditor.state = "OPEN"

Constructed ==
  /\ range = NoRange
  /\ inProgress = FALSE
  /\ listening = FALSE
  /\ mouseDown = FALSE
  /\ activeWt = wt
  /\ activeEditor = NoEditor
  /\ lock = FALSE
  /\ destroyed = FALSE
  /\ selectionMouseDown = FALSE

\* the state after construction, with the whole grid in the viewport
Init ==
  /\ Constructed
  /\ totalRows = countRows
  /\ totalCols = countCols
  /\ calc = [startRow |-> 0, endRow |-> countRows - 1,
             startColumn |-> 0, endColumn |-> countCols - 1]

CellMouseDown ==
  \E e \in PointerInputs : CanCommit(e) /\ Set(onCellMouseDown(Cur, e))

CellMouseOver ==
  \E e \in PointerInputs : CanCommit(e) /\ Set(onCellMouseOver(Cur, e))

CellMouseOut == \E e \in HoverInputs : Set(onCellMouseOut(Cur, e))

CellMouseUp == \E e \in HoverInputs : Set(onCellMouseUp(Cur, e))

CellContextMenu == \E e \in HoverInputs : Set(onCellContextMenu(Cur, e))

RootMouseDown ==
  \E el \in Targets, fs \in FragmentSelection : Set(rootMouseDown(Cur, el, fs))

RootMouseUp == Set(rootMouseUp(Cur))

RootMouseMove ==
  \E el \in Targets, fs \in FragmentSelection : Set(rootMouseMove(Cur, el, fs))

MouseUpInputs == [button : {"left", "middle", "right"}, outsideInput : BOOLEAN]

DocumentMouseUp == \E e \in MouseUpInputs : Set(documentMouseUp(Cur, e))

ContextMenuInputs == [button : {"left", "right"}]

DocumentContextMenu ==
  \E e \in ContextMenuInputs : Set(documentContextMenu(Cur, e))

DocumentTouchEnd == Set(documentTouchEnd(Cur))

DocumentKeyUp == \E shiftKey \in BOOLEAN : Set(documentKeyUp(Cur, shiftKey))

DocumentMouseDown ==
  \E e \in MouseDownInputs : CanCommit(e) /\ Set(documentMouseDown(Cur, e))

DocumentKeyDown ==
  \E e \in KeyInputs : CanCommit(e) /\ Set(documentKeyDown(Cur, e))

CompositionStart == Set(compositionStart(Cur))

DblClick == \E nodeName \in {"TD", "TH"} : Set(onDblClick(Cur, nodeName))

LockEditor == Set(lockEditor(Cur))

UnlockEditor == Set(unlockEditor(Cur))

PrepareEditor == Set(prepareEditor(Cur))

OpenEditor ==
  \E newInitialValue \in {"", "null"} :
    Set(openEditor(Cur, newInitialValue, FALSE, FALSE))

CloseEditor ==
  \E e \in CloseInputs :
    CanCommit(e) /\ Set(closeEditor(Cur, e.revert, FALSE, FALSE, e.async))

DestroyEditor ==
  \E e \in CloseInputs :
    CanCommit(e) /\ Set(destroyEditor(Cur, e.revert, e.async))

CommitResolved ==
  /\ activeEditor.state = "WAITING"
  /\ \E dataSaved \in BOOLEAN : Set(commitResolved(Cur, dataSaved))

destroy(s) == [s EXCEPT !.destroyed = TRUE]

Destroy == Set(destroy(Cur))

Next ==
  \/ CellMouseDown
  \/ CellMouseOver
  \/ CellMouseOut
  \/ CellMouseUp
  \/ CellContextMenu
  \/ DocumentMouseUp
  \/ DocumentContextMenu
  \/ DocumentTouchEnd
  \/ DocumentKeyUp
  \/ DocumentMouseDown
  \/ DocumentKeyDown
  \/ CompositionStart
  \/ DblClick
  \/ LockEditor
  \/ UnlockEditor
  \/ PrepareEditor
  \/ OpenEditor
  \/ CloseEditor
  \/ DestroyEditor
  \/ CommitResolved
  \/ Destroy

Spec == Init /\ [][Next]_<<vars, viewportVars>>

\* The root element's three listeners read and write priv.selectionMouseDown,
\* which no other handler reads or writes; SpecRoot is the program with them.
NextRoot ==
  \/ Next
  \/ RootMouseDown
  \/ RootMouseUp
  \/ RootMouseMove

SpecRoot == Init /\ [][NextRoot]_<<vars, viewportVars>>

\* ------------------------------------------------- TableView: viewport
\* the overscan the overrides use for 'auto' on an axis with a fixed pane,
\* and the factor of the proportional overscan
FixedPaneOffset == 10
AutoFactor == 12

Max(a, b) == IF a >= b THEN a ELSE b
Min(a, b) == IF a <= b THEN a ELSE b

\* Math.ceil(n / d) for n >= 0 and d > 0
Ceil(n, d) == (n + d - 1) \div d

\* a viewportRowRenderingOffset / viewportColumnRenderingOffset setting: a
\* number or 'auto'
Number(n) == [kind |-> "number", n |-> n]
Auto == [kind |-> "auto", n |-> 0]

\* the result of an override: the calculator as it leaves it, and the hooks
\* it ran with their argument
Overridden(c, hook) == [calc |-> c, trace |-> <<<<"runHooks", hook, c>>>>]

\* the row override that does not look at fixedRowsTop
viewportRowCalculatorOverride_AutoIgnoresPane(c, rows, setting, fixedRowsTop) ==
  LET viewportOffset == setting
      c1 == IF viewportOffset.kind = "number"
              THEN [c EXCEPT !.startRow = Max(c.startRow - viewportOffset.n, 0),
                             !.endRow = Min(c.endRow + viewportOffset.n, rows - 1)]
              ELSE c
      center == c1.startRow + c1.endRow - c1.startRow
      offset == Ceil(center * AutoFactor, rows)
      c2 == IF viewportOffset.kind = "auto"
              THEN [c1 EXCEPT !.startRow = Max(c1.startRow - offset, 0),
                              !.endRow = Min(c1.endRow + offset, rows - 1)]
              ELSE c1
  IN Overridden(c2, "afterViewportRowCalculatorOverride")

\* the row override with a numeric overscan that does not stop at the last row
viewportRowCalculatorOverride_NoCeiling(c, rows, setting, fixedRowsTop) ==
  LET viewportOffset ==
        IF setting.kind = "auto" /\ fixedRowsTop # 0
          THEN Number(FixedPaneOffset) ELSE setting
      c1 == IF viewportOffset.kind = "number"
              THEN [c EXCEPT !.startRow = Max(c.startRow - viewportOffset.n, 0),
                             !.endRow = c.endRow + viewportOffset.n]
              ELSE c
      center == c1.startRow + c1.endRow - c1.startRow
      offset == Ceil(center * AutoFactor, rows)
      c2 == IF viewportOffset.kind = "auto"
              THEN [c1 EXCEPT !.startRow = Max(c1.startRow - offset, 0),
                              !.endRow = Min(c1.endRow + offset, rows - 1)]
              ELSE c1
  IN Overridden(c2, "afterViewportRowCalculatorOverride")

\* viewportRowCalculatorOverride(calc): rows is instance.countRows(),
\* setting is settings.viewportRowRenderingOffset
viewportRowCalculatorOverride(c, rows, setting, fixedRowsTop) ==
  LET viewportOffset ==
        IF setting.kind = "auto" /\ fixedRowsTop # 0
          THEN Number(FixedPaneOffset) ELSE setting
      c1 == IF viewportOffset.kind = "number"
              THEN [c EXCEPT !.startRow = Max(c.startRow - viewportOffset.n, 0),
                             !.endRow = Min(c.endRow + viewportOffset.n, rows - 1)]
              ELSE c
      center == c1.startRow + c1.endRow - c1.startRow
      offset == Ceil(center * AutoFactor, rows)
      c2 == IF viewportOffset.kind = "auto"
              THEN [c1 EXCEPT !.startRow = Max(c1.startRow - offset, 0),
                              !.endRow = Min(c1.endRow + offset, rows - 1)]
              ELSE c1
  IN Overridden(c2, "afterViewportRowCalculatorOverride")

\* the column override with a numeric overscan that does not stop at column 0
viewportColumnCalculatorOverride_NoFloor(c, cols, setting, fixedColumnsLeft) ==
  LET viewportOffset ==
        IF setting.kind = "auto" /\ fixedColumnsLeft # 0
          THEN Number(FixedPaneOffset) ELSE setting
      c1 == IF viewportOffset.kind = "number"
              THEN [c EXCEPT
                      !.startColumn = c.startColumn - viewportOffset.n,
                      !.endColumn = Min(c.endColumn + viewportOffset.n, cols - 1)]
              ELSE c
      center == c1.startColumn + c1.endColumn - c1.startColumn
      offset == Ceil(center * AutoFactor, cols)
      c2 == IF viewportOffset.kind = "auto"
              THEN [c1 EXCEPT !.startRow = Max(c1.startColumn - offset, 0),
                              !.endColumn = Min(c1.endColumn + offset, cols - 1)]
              ELSE c1
  IN Overridden(c2, "afterViewportColumnCalculatorOverride")

\* viewportColumnCalculatorOverride(calc): cols is instance.countCols(),
\* setting is settings.viewportColumnRenderingOffset.  Its 'auto' branch
\* assigns calc.startRow, not calc.startColumn.
viewportColumnCalculatorOverride(c, cols, setting, fixedColumnsLeft) ==
  LET viewportOffset ==
        IF setting.kind = "auto" /\ fixedColumnsLeft # 0
          THEN Number(FixedPaneOffset) ELSE setting
      c1 == IF viewportOffset.kind = "number"
              THEN [c EXCEPT
                      !.startColumn = Max(c.startColumn - viewportOffset.n, 0),
                      !.endColumn = Min(c.endColumn + viewportOffset.n, cols - 1)]
              ELSE c
      center == c1.startColumn + c1.endColumn - c1.startColumn
      offset == Ceil(center * AutoFactor, cols)
      c2 == IF viewportOffset.kind = "auto"
              THEN [c1 EXCEPT !.startRow = Max(c1.startColumn - offset, 0),
                              !.endColumn = Min(c1.endColumn + offset, cols - 1)]
              ELSE c1
  IN Overridden(c2, "afterViewportColumnCalculatorOverride")

\* the windows of an axis with total lines
MaxTotal == 12
MaxOffset == 2
Windows(total) ==
  {w \in [start : 0..(total - 1), end : 0..(total - 1)] : w.start <= w.end}

\* the overscan setting of an axis and its fixed-pane count, which the
\* overrides read only when the setting is 'auto'
OverscanInputs ==
  {x : x \in
    {i \in [setting : {Number(n) : n \in 0..MaxOffset} \cup {Auto},
            fixed : 0..1] :
       i.fixed # 0 => i.setting = Auto}}

\* the grid after construction, with any window of any grid size calculated
InitViewport ==
  /\ Constructed
  /\ totalRows \in 1..MaxTotal
  /\ totalCols \in 1..MaxTotal
  /\ \E r \in Windows(totalRows), k \in Windows(totalCols) :
       calc = [startRow |-> r.start, endRow |-> r.end,
               startColumn |-> k.start, endColumn |-> k.end]

ViewportRowOverride ==
  /\ \E i \in OverscanInputs :
       calc' = viewportRowCalculatorOverride(calc, totalRows, i.setting, i.fixed).calc
  /\ UNCHANGED <<totalRows, totalCols, vars>>

ViewportColumnOverride ==
  /\ \E i \in OverscanInputs :
       calc' = viewportColumnCalculatorOverride(calc, totalCols, i.setting, i.fixed).calc
  /\ UNCHANGED <<totalRows, totalCols, vars>>

NextViewport ==
  \/ ViewportRowOverride
  \/ ViewportColumnOverride

SpecViewport == InitViewport /\ [][NextViewport]_<<vars, viewportVars>>

\* ============================================================== claims
\* A claim about what a handler does is stated as: in every reachable
\* state, for every input, the record the handler returns from that state
\* satisfies the property.

\* how many calls of `name' a trace holds
Count(tr, name) == Cardinality({i \in 1..Len(tr) : tr[i][1] = name})

\* the program state of a record, without its trace
StateOf(s) ==
  <<s.range, s.inProgress, s.listening, s.mouseDown, s.activeWt,
    s.activeEditor, s.lock, s.destroyed, s.selectionMouseDown>>

\* C1: after any cell pointer handler returns, the active surface is the
\* main surface, whatever surface raised the event and whatever the hooks
\* did.  Only the cell pointer handlers write priv.activeWt, so this is:
\* between two handlers mainViewIsActive() is true.
C1_ActiveSurfaceRestored == mainViewIsActive(Cur)

\* C2: in every pointer handler and in the keyboard handler the `before'
\* hook is the first thing the handler does, and when a `before' listener
\* cancels nothing else is done: neither the action nor the `after' hook.
CancelledRunsOnly(s, before) == s.trace = <<<<"runHooks", before>>>>

C2_BeforeFirstAndCancelSkips ==
  /\ \A e \in PointerInputs :
       e.hooks = "stop" =>
         /\ CancelledRunsOnly(onCellMouseDown(Cur, e), "beforeOnCellMouseDown")
         /\ CancelledRunsOnly(onCellMouseOver(Cur, e), "beforeOnCellMouseOver")
  /\ \A e \in HoverInputs :
       e.hooks = "stop" =>
         /\ CancelledRunsOnly(onCellMouseOut(Cur, e), "beforeOnCellMouseOut")
         /\ CancelledRunsOnly(onCellMouseUp(Cur, e), "beforeOnCellMouseUp")
         /\ CancelledRunsOnly(onCellContextMenu(Cur, e),
                              "beforeOnCellContextMenu")
  /\ \A e \in KeyInputs :
       (e.hook = "stop" /\ listening) =>
         CancelledRunsOnly(onKeyDown(Cur, e), "beforeKeyDown")

\* C3: a cell pointer-down that its `before' hook cancels changes nothing:
\* every step that is such a handler run leaves the selection, the `pointer
\* held' flag, the active surface and the listening state as they were (so
\* that a pointer-over that follows it cannot move the selection).
CancelledCellMouseDown ==
  \E e \in PointerInputs : e.hooks = "stop" /\ Set(onCellMouseDown(Cur, e))

C3_CancelledMouseDownChangesNothing ==
  [][CancelledCellMouseDown
       => UNCHANGED <<range, mouseDown, activeWt, listening>>]_vars

\* C4: a document mousedown on a target outside the root element, in any
\* reachable state: with outsideClickDeselects the selection becomes empty;
\* without it the selection is unchanged and the editor manager is told to
\* destroy the editor (which, unless locked, asks the active editor to
\* finish).
OutsideTargets == {"html", "body", "aside"}

C4_OutsideClickPolicy ==
  \A e \in MouseDownInputs :
    e.target \in OutsideTargets =>
      LET s == documentMouseDown(Cur, e)
      IN IF e.outsideClickDeselects
           THEN s.range = NoRange
           ELSE /\ s.range = range
                /\ Called(s.trace, "destroyEditor")
                /\ (~lock /\ activeEditor # NoEditor)
                     => Called(s.trace, "finishEditing")

\* C5 as claimed: a document mousedown on the root element or on any
\* descendant of it, the holder included, changes nothing and calls
\* neither deselectCell nor destroyEditor.
InsideTargets == {"rootElement", "holder", "td"}

IgnoredClick(e) ==
  LET s == documentMouseDown(Cur, e)
  IN StateOf(s) = StateOf(Cur) /\ s.trace = <<>>

C5_InsideClickIgnored_Claimed ==
  \A e \in MouseDownInputs : e.target \in InsideTargets => IgnoredClick(e)

\* C5 as amended: a document mousedown on the root element or on a
\* descendant of it is ignored, except a mousedown directly on the holder
\* whose two probes both hit the holder; that one is handled as an outside
\* click whenever no pointer is held.
C5_InsideClickIgnored ==
  \A e \in MouseDownInputs :
    /\ (e.target \in InsideTargets /\ ~(e.target = "holder" /\ e.probeX /\ e.probeY))
         => IgnoredClick(e)
    /\ (e.target = "holder" /\ e.probeX /\ e.probeY /\ ~mouseDown)
         => StateOf(documentMouseDown(Cur, e))
              = StateOf(documentMouseDown(Cur, [e EXCEPT !.target = "aside"]))

\* C5's case: a cell is selected and its editor is open, no pointer is
\* held, and a mousedown on a cell (with outsideClickDeselects set) leaves
\* the selection and the editor alone.
C5_Witness ==
  /\ range # NoRange
  /\ activeEditor.state = "OPEN"
  /\ ~mouseDown
  /\ \E e \in MouseDownInputs :
       e.target = "td" /\ e.outsideClickDeselects /\ IgnoredClick(e)

\* C6: while the lock is set, destroyEditor does not ask the active editor
\* to finish and leaves it as it is; once unlocked, the same call asks the
\* active editor to finish with the revert flag it was given.
C6_LockSuppressesDestroy ==
  \A e \in CloseInputs :
    /\ lock =>
         LET s == destroyEditor(Cur, e.revert, e.async)
         IN s.activeEditor = activeEditor /\ ~Called(s.trace, "finishEditing")
    /\ (lock /\ activeEditor # NoEditor) =>
         destroyEditor(unlockEditor(Cur), e.revert, e.async).trace
           = <<<<"finishEditing", e.revert, FALSE, FALSE>>>>

\* C6's case: the lock is set while an editor is open, so that a destroy
\* would have closed it.
C6_Witness == lock /\ activeEditor.state = "OPEN"

\* C7: while the lock stays set, no step constructs, replaces or clears
\* the active editor (its identity is the same after every step), and
\* prepareEditor does nothing at all.
C7_LockedEditorIsKept ==
  [][/\ lock => (StateOf(prepareEditor(Cur)) = StateOf(Cur)
                   /\ prepareEditor(Cur).trace = <<>>)
     /\ (lock /\ lock') => activeEditor'.id = activeEditor.id]_vars

\* C7's case: locked, with an active editor, while the highlight is on a
\* cell that has no editor: unlocked, prepareEditor would clear the active
\* editor here.
C7_Witness ==
  /\ lock
  /\ activeEditor # NoEditor
  /\ range # NoRange
  /\ ~getCellEditor(range.highlight)

\* C8: prepareEditor, unlocked, on a WAITING editor keeps the active editor
\* and only asks it to finish (commit) with a continuation; when the commit
\* ends with dataSaved = false the continuations leave the active editor in
\* place and construct nothing; with dataSaved = true each of them prepares
\* again.
C8_DeferredPrepare ==
  (activeEditor.state = "WAITING") =>
    /\ ~lock =>
         LET s == prepareEditor(Cur)
         IN /\ s.activeEditor.id = activeEditor.id
            /\ s.activeEditor.state = "WAITING"
            /\ s.activeEditor.cbs = activeEditor.cbs + 1
            /\ s.trace = <<<<"finishEditing", FALSE, FALSE, TRUE>>>>
    /\ LET s == commitResolved(Cur, FALSE)
       IN /\ s.activeEditor.id = activeEditor.id
          /\ ~Called(s.trace, "getEditorInstance")
    /\ (activeEditor.cbs > 0 /\ ~lock /\ range # NoRange
        /\ getCellEditor(range.highlight)) =>
         LET s == commitResolved(Cur, TRUE)
         IN Count(s.trace, "getEditorInstance") = activeEditor.cbs

\* C8's case: an unlocked, WAITING editor with a deferred prepareEditor
\* pending on it, and a selection whose highlight has an editor.
C8_Witness ==
  /\ activeEditor.state = "WAITING"
  /\ activeEditor.cbs > 0
  /\ ~lock
  /\ range # NoRange
  /\ getCellEditor(range.highlight)

\* C9: while the active editor is WAITING, no key, double click or
\* composition start makes the editor manager call beginEditing.
C9_NoBeginEditingWhileWaiting ==
  (activeEditor.state = "WAITING") =>
    /\ \A e \in KeyInputs :
         ~Called(documentKeyDown(Cur, e).trace, "beginEditing")
    /\ \A nodeName \in {"TD", "TH"} :
         ~Called(onDblClick(Cur, nodeName).trace, "beginEditing")
    /\ ~Called(compositionStart(Cur).trace, "beginEditing")

\* C10: in every reachable state, whenever a key event or a prepareEditor
\* call installs a new editor instance as the active editor, the editor it
\* replaces is neither open nor waiting at that moment.
ReplacesClosedOnly(s) ==
  \A i \in 1..Len(s.trace) :
    s.trace[i][1] = "getEditorInstance" => s.trace[i][2] = "CLOSED"

C10_ReplacedEditorIsClosed ==
  /\ \A e \in KeyInputs : ReplacesClosedOnly(documentKeyDown(Cur, e))
  /\ ReplacesClosedOnly(prepareEditor(Cur))

\* C11: closeEditor with no active editor invokes the given callback once,
\* with false, before it returns, and changes nothing; with an active
\* editor it calls that editor's finishEditing once, with the revert flag,
\* the modifier flag and the callback, and does not invoke the callback
\* itself.
C11_CloseEditorCallback ==
  \A e \in CloseInputs, ctrlDown \in BOOLEAN, hasCb \in BOOLEAN :
    LET s == closeEditor(Cur, e.revert, ctrlDown, hasCb, e.async)
    IN IF activeEditor = NoEditor
         THEN /\ StateOf(s) = StateOf(Cur)
              /\ s.trace = IF hasCb THEN <<<<"callback", FALSE>>>> ELSE <<>>
         ELSE s.trace = <<<<"finishEditing", e.revert, ctrlDown, hasCb>>>>

\* C11's case: a cell is selected and the grid listens, but there is no
\* active editor (the highlighted cell has none).
C11_Witness ==
  /\ activeEditor = NoEditor
  /\ range # NoRange
  /\ listening

\* the events that can reach the editor manager never call beginEditing
NoEventBeginsEditing ==
  /\ \A e \in KeyInputs :
       ~Called(documentKeyDown(Cur, e).trace, "beginEditing")
  /\ \A nodeName \in {"TD", "TH"} :
       ~Called(onDblClick(Cur, nodeName).trace, "beginEditing")
  /\ ~Called(compositionStart(Cur).trace, "beginEditing")
  /\ \A e \in PointerInputs :
       /\ ~Called(onCellMouseDown(Cur, e).trace, "beginEditing")
       /\ ~Called(onCellMouseOver(Cur, e).trace, "beginEditing")

\* C12: while the active editor's cell is read-only no input event calls
\* beginEditing; openEditor for an Enter key event starts its work with the
\* post-edit move of the selection (when there is a selection), and
\* openEditor for any other event changes nothing and calls nothing.
C12_ReadOnlyNeverEdits ==
  (activeEditor # NoEditor /\ activeEditor.readOnly) =>
    /\ NoEventBeginsEditing
    /\ \A async \in BOOLEAN, v \in {"", "null"} :
         /\ openEditor(Cur, v, FALSE, async) = Cur
         /\ ~Called(openEditor(Cur, v, TRUE, async).trace, "beginEditing")
         /\ isSelected(Cur) =>
              /\ Called(openEditor(Cur, v, TRUE, async).trace, "transformStart")
              /\ openEditor(Cur, v, TRUE, async).trace[1][1] = "transformStart"
    /\ \A e \in KeyInputs :
         (/\ e.keyCode = "ENTER" /\ e.enterBeginsEditing
          /\ listening /\ ~destroyed /\ isSelected(Cur)
          /\ ~isEditorOpened(Cur) /\ e.hook = "ok") =>
           Called(documentKeyDown(Cur, e).trace, "transformStart")

\* C12's case: the grid listens, the highlight is on the read-only cell and
\* its editor is the active editor, not locked.
C12_Witness ==
  /\ activeEditor # NoEditor
  /\ activeEditor.readOnly
  /\ listening
  /\ ~lock
  /\ ~destroyed
  /\ range # NoRange
  /\ cellReadOnly(range.highlight)

\* onKeyDown from state s changes nothing and calls nothing but hooks
KeyIgnored(s, e) ==
  LET r == onKeyDown(s, e)
  IN /\ StateOf(r) = StateOf(s)
     /\ \A i \in 1..Len(r.trace) : r.trace[i][1] = "runHooks"

\* C13: onKeyDown leaves the selection and the editor alone and calls no
\* transform, open, close or prepare: when the grid is not listening (then
\* it does nothing at all), when the key code is 229, when a listener
\* stopped the event's immediate propagation, and when nothing is selected.
C13_KeyDownGuards ==
  \A e \in KeyInputs :
    /\ ~listening => onKeyDown(Cur, e) = Cur
    /\ KeyIgnored(Cur, [e EXCEPT !.keyCode = "IME_229"])
    /\ KeyIgnored(Cur, [e EXCEPT !.hook = "stop"])
    /\ ~isSelected(Cur) => KeyIgnored(Cur, e)

\* C13's case: the grid listens and has an active editor, closed and not
\* read-only, but nothing is selected: only the selection test keeps a
\* printable key from opening the editor.
C13_Witness ==
  /\ listening
  /\ ~destroyed
  /\ range = NoRange
  /\ activeEditor # NoEditor
  /\ activeEditor.state = "CLOSED"
  /\ ~activeEditor.readOnly

ArrowKeys == {"ARROW_UP", "ARROW_DOWN", "ARROW_LEFT", "ARROW_RIGHT"}

\* one step on the arrow's axis, as <<rowDelta, colDelta>>
ArrowDelta(keyCode) ==
  CASE keyCode = "ARROW_UP" -> <<-1, 0>>
    [] keyCode = "ARROW_DOWN" -> <<1, 0>>
    [] keyCode = "ARROW_RIGHT" -> <<0, 1>>
    [] keyCode = "ARROW_LEFT" -> <<0, -1>>

IsMove(call) == call[1] \in {"transformStart", "transformEnd"}

\* the position of the first selection move in a trace that has one
FirstMove(tr) ==
  CHOOSE i \in 1..Len(tr) :
    IsMove(tr[i]) /\ \A j \in 1..(i - 1) : ~IsMove(tr[j])

\* the key event gets past the guards of onKeyDown
KeyHandled(e) ==
  listening /\ ~destroyed /\ isSelected(Cur) /\ e.hook = "ok"

\* C14: on an arrow key the selection is moved; with an editor open and
\* not WAITING exactly one finishEditing(revert = false) is asked first;
\* otherwise (WAITING included) nothing is asked of the editor before the
\* move; without Shift the move is transformStart by one step on the
\* arrow's axis, and the highlight ends one step further when that cell
\* exists.
C14_ArrowCommitsThenMoves ==
  \A e \in KeyInputs :
    (e.keyCode \in ArrowKeys /\ KeyHandled(e)) =>
      LET r == onKeyDown(Cur, e)
          d == ArrowDelta(e.keyCode)
          ctrlDown == e.ctrl /\ ~e.alt
          target == <<range.highlight[1] + d[1], range.highlight[2] + d[2]>>
      IN /\ \E i \in 1..Len(r.trace) : IsMove(r.trace[i])
         /\ SubSeq(r.trace, 1, FirstMove(r.trace) - 1)
              = IF isEditorOpened(Cur) /\ ~isWaiting(activeEditor)
                  THEN <<<<"runHooks", "beforeKeyDown">>,
                         <<"finishEditing", FALSE, ctrlDown, FALSE>>>>
                  ELSE <<<<"runHooks", "beforeKeyDown">>>>
         /\ ~e.shift =>
              /\ r.trace[FirstMove(r.trace)]
                   = <<"transformStart", d[1], d[2], FALSE>>
              /\ target \in Cells => r.range.highlight = target

\* C14's case: the grid listens, the editor of the highlighted cell (0,0)
\* is open, and there is a cell below and to the right to move to.
C14_Witness ==
  /\ listening
  /\ ~destroyed
  /\ range # NoRange
  /\ range.highlight = <<0, 0>>
  /\ activeEditor.state = "OPEN"

\* C15: Shift+Arrow moves the selection by one transformEnd of one step on
\* the arrow's axis and never calls transformStart or setRangeStart: the
\* anchor and the highlight of the range stay, the open end moves to the
\* (clamped) next cell.
C15_ShiftArrowExtendsOnly ==
  \A e \in KeyInputs :
    (e.keyCode \in ArrowKeys /\ e.shift /\ KeyHandled(e)) =>
      LET r == onKeyDown(Cur, e)
          d == ArrowDelta(e.keyCode)
      IN /\ Count(r.trace, "transformEnd") = 1
         /\ r.trace[FirstMove(r.trace)] = <<"transformEnd", d[1], d[2]>>
         /\ ~Called(r.trace, "transformStart")
         /\ ~Called(r.trace, "setRangeStart")
         /\ r.range.from = range.from
         /\ r.range.highlight = range.highlight
         /\ r.range.to = clampCoords(<<range.to[1] + d[1], range.to[2] + d[2]>>)

\* C15's case: the grid listens and a range is selected whose open end is
\* not its anchor.
C15_Witness ==
  /\ listening
  /\ ~destroyed
  /\ range # NoRange
  /\ range.to # range.from

\* an Enter keydown that gets past the guards of onKeyDown
EnterHandled(e) == e.keyCode = "ENTER" /\ KeyHandled(e)

\* the move moveSelectionAfterEnter(shiftKey) makes
EnterMove(shiftKey) ==
  IF shiftKey
    THEN <<"transformStart", -enterMoves.row, -enterMoves.col, FALSE>>
    ELSE <<"transformStart", enterMoves.row, enterMoves.col, TRUE>>

\* the first and the third branch of the ENTER case: with the editor open,
\* a commit is asked first unless the editor is WAITING and then the
\* selection moves; with the editor not open and enterBeginsEditing not
\* set, the selection just moves
EnterMovesSelection(e) ==
  LET r == onKeyDown(Cur, e)
      ctrlDown == e.ctrl /\ ~e.alt
  IN /\ Count(r.trace, "transformStart") = 1
     /\ r.trace[FirstMove(r.trace)] = EnterMove(e.shift)
     /\ ~Called(r.trace, "beginEditing")
     /\ SubSeq(r.trace, 1, FirstMove(r.trace) - 1)
          = IF isEditorOpened(Cur) /\ ~isWaiting(activeEditor)
              THEN <<<<"runHooks", "beforeKeyDown">>,
                     <<"finishEditing", FALSE, ctrlDown, FALSE>>>>
              ELSE <<<<"runHooks", "beforeKeyDown">>>>

\* the second branch as claimed: full-edit mode, then the editor is opened
\* with no initial value, and the selection stays
EnterOpensEditor(e) ==
  LET r == onKeyDown(Cur, e)
  IN /\ r.trace = <<<<"runHooks", "beforeKeyDown">>,
                    <<"enableFullEditMode">>, <<"beginEditing", "null">>>>
     /\ r.activeEditor.state = "OPEN"
     /\ r.range = range

\* C16 as claimed: the three branches of Enter, the second one opening the
\* editor whenever the editor is not open and enterBeginsEditing is set.
C16_EnterKey_Claimed ==
  \A e \in KeyInputs :
    EnterHandled(e) =>
      IF isEditorOpened(Cur) \/ ~e.enterBeginsEditing
        THEN EnterMovesSelection(e)
        ELSE EnterOpensEditor(e)

\* C16 as amended: in the second branch the editor is opened only if there
\* is an active editor whose cell is not read-only; for a read-only cell
\* full-edit mode is still enabled but the editor stays closed and the
\* selection moves by the enter-moves delta; with no active editor Enter
\* does nothing.
C16_EnterKey ==
  \A e \in KeyInputs :
    EnterHandled(e) =>
      LET r == onKeyDown(Cur, e)
      IN IF isEditorOpened(Cur) \/ ~e.enterBeginsEditing
           THEN EnterMovesSelection(e)
         ELSE IF activeEditor = NoEditor
           THEN /\ r.trace = <<<<"runHooks", "beforeKeyDown">>>>
                /\ StateOf(r) = StateOf(Cur)
         ELSE IF activeEditor.readOnly
           THEN /\ SubSeq(r.trace, 1, 3)
                     = <<<<"runHooks", "beforeKeyDown">>,
                         <<"enableFullEditMode">>,
                         <<"transformStart", enterMoves.row, enterMoves.col,
                           TRUE>>>>
                /\ ~Called(r.trace, "beginEditing")
         ELSE EnterOpensEditor(e)

\* C16's case: the grid listens, a cell is selected and its editor, not
\* read-only, is closed: Enter opens it if enterBeginsEditing is set and
\* moves the selection if not.
C16_Witness ==
  /\ listening
  /\ ~destroyed
  /\ range # NoRange
  /\ activeEditor # NoEditor
  /\ activeEditor.state = "CLOSED"
  /\ ~activeEditor.readOnly

\* C17: every selection move that an Enter keydown makes is a
\* transformStart by the enter-moves delta whose sign follows Shift:
\* +delta with growth allowed without Shift, -delta with Shift; the
\* post-edit move for a read-only cell included.
C17_EnterMoveSignFollowsShift ==
  \A e \in KeyInputs :
    EnterHandled(e) =>
      LET r == onKeyDown(Cur, e)
      IN \A i \in 1..Len(r.trace) :
           IsMove(r.trace[i]) => r.trace[i] = EnterMove(e.shift)

\* C18: Backspace or Delete with a selection calls emptySelectedCells once
\* and then does what prepareEditor does, and nothing else; beginEditing is
\* not called, the selection stays, and the key never opens an editor: a
\* closed editor is still closed afterwards, and an editor that is open
\* afterwards is the one that was open before.
C18_BackspaceClearsAndPrepares ==
  \A e \in KeyInputs :
    (e.keyCode \in {"BACKSPACE", "DELETE"} /\ KeyHandled(e)) =>
      LET r == onKeyDown(Cur, e)
      IN /\ Len(r.trace) >= 2
         /\ SubSeq(r.trace, 1, 2)
              = <<<<"runHooks", "beforeKeyDown">>, <<"emptySelectedCells">>>>
         /\ SubSeq(r.trace, 3, Len(r.trace)) = prepareEditor(Cur).trace
         /\ StateOf(r) = StateOf(prepareEditor(Cur))
         /\ (~lock /\ ~isWaiting(activeEditor)
             /\ getCellEditor(range.highlight)) => Called(r.trace, "prepare")
         /\ ~Called(r.trace, "beginEditing")
         /\ r.range = range
         /\ activeEditor.state = "CLOSED" => r.activeEditor.state = "CLOSED"
         /\ r.activeEditor.state = "OPEN" =>
              (activeEditor.state = "OPEN" /\ r.activeEditor = activeEditor)

\* C18's case: the grid listens, more than one cell is selected, and the
\* editor of the highlighted cell is closed, not read-only and not locked.
C18_Witness ==
  /\ listening
  /\ ~destroyed
  /\ ~lock
  /\ range # NoRange
  /\ range.from # range.to
  /\ activeEditor # NoEditor
  /\ activeEditor.state = "CLOSED"
  /\ ~activeEditor.readOnly

\* C19: Escape while the editor is open asks the active editor to finish
\* with revert = true and then, and only then, focuses it; nothing else is
\* called, the selection stays and the active editor is the same instance
\* (closed now if it was open); Escape while no editor is open calls
\* neither and changes nothing.
C19_EscapeRevertsThenFocuses ==
  \A e \in KeyInputs :
    (e.keyCode = "ESCAPE" /\ KeyHandled(e)) =>
      LET r == onKeyDown(Cur, e)
          ctrlDown == e.ctrl /\ ~e.alt
      IN IF isEditorOpened(Cur)
           THEN /\ r.trace = <<<<"runHooks", "beforeKeyDown">>,
                               <<"finishEditing", TRUE, ctrlDown, FALSE>>,
                               <<"focus">>>>
                /\ r.range = range
                /\ r.activeEditor.id = activeEditor.id
                /\ activeEditor.state = "OPEN"
                     => r.activeEditor.state = "CLOSED"
           ELSE /\ r.trace = <<<<"runHooks", "beforeKeyDown">>>>
                /\ StateOf(r) = StateOf(Cur)

\* C19's case: the grid listens, a cell is selected and its editor is open.
C19_Witness ==
  /\ listening
  /\ ~destroyed
  /\ range # NoRange
  /\ activeEditor.state = "OPEN"
  /\ ~lock

Abs(n) == IF n < 0 THEN -n ELSE n

\* the number of cells the selected range covers
SelectedCells ==
  IF range = NoRange THEN 0
  ELSE (Abs(range.to[1] - range.from[1]) + 1)
         * (Abs(range.to[2] - range.from[2]) + 1)

\* the five rules of the text-selection permission
TextSelectionRule(isInput, insideBody, fs, editorOpen, selected) ==
  \/ isInput
  \/ fs = "true" /\ insideBody
  \/ fs = "cell" /\ selected = 1 /\ insideBody
  \/ fs = "false" /\ editorOpen /\ selected = 1

\* C20: in every reachable state isTextSelectionAllowed gives what the
\* five rules give, for every target and every fragmentSelection; with
\* 'cell' a target inside the body is allowed when one cell is selected and
\* refused when two or more are; with false, an open editor and one
\* selected cell the answer is true.
C20_TextSelectionRules ==
  \A el \in Targets, fs \in FragmentSelection :
    /\ isTextSelectionAllowed(Cur, el, fs)
         = TextSelectionRule(el.isInput, el.isChildOfTableBody, fs,
                             isEditorOpened(Cur), SelectedCells)
    /\ (fs = "cell" /\ el.isChildOfTableBody /\ SelectedCells = 1)
         => isTextSelectionAllowed(Cur, el, fs)
    /\ (fs = "cell" /\ ~el.isInput /\ SelectedCells >= 2)
         => ~isTextSelectionAllowed(Cur, el, fs)
    /\ (fs = "false" /\ isEditorOpened(Cur) /\ SelectedCells = 1)
         => isTextSelectionAllowed(Cur, el, fs)

\* C20's case: two cells of one row are selected and the editor is open.
C20_Witness ==
  /\ range # NoRange
  /\ range.from[1] = range.to[1]
  /\ range.from[2] # range.to[2]
  /\ activeEditor.state = "OPEN"

\* a mousemove over the root element while the button is held on a target
\* for which text selection is not allowed
DisallowedDrag(el, fs) ==
  selectionMouseDown /\ ~isTextSelectionAllowed(Cur, el, fs)

\* C21 as claimed: on every disallowed drag the mousemove listener prevents
\* the default action and clears the text selection, for every
\* fragmentSelection setting.
C21_DragSuppressesAndClears_Claimed ==
  \A el \in Targets, fs \in FragmentSelection :
    DisallowedDrag(el, fs) =>
      LET s == rootMouseMove(Cur, el, fs)
      IN /\ Called(s.trace, "preventDefault")
         /\ Called(s.trace, "clearTextSelection")

\* C21: on every disallowed drag the mousemove listener prevents the default
\* action exactly once; it clears the text selection exactly when
\* fragmentSelection is enabled (true or 'cell') and leaves it alone when
\* fragmentSelection is false; a mousemove that is not a disallowed drag
\* calls nothing; the listener changes no state.
C21_DragSuppressesAndClears ==
  \A el \in Targets, fs \in FragmentSelection :
    LET s == rootMouseMove(Cur, el, fs)
    IN /\ StateOf(s) = StateOf(Cur)
       /\ DisallowedDrag(el, fs) =>
            /\ Count(s.trace, "preventDefault") = 1
            /\ s.trace[Len(s.trace)] = <<"preventDefault">>
            /\ Count(s.trace, "clearTextSelection")
                 = IF fs = "false" THEN 0 ELSE 1
       /\ ~DisallowedDrag(el, fs) => s.trace = <<>>

\* C21's case: the button is held over the root element, a cell range is
\* selected, and a target outside any input is dragged over with
\* fragmentSelection false (not cleared) and with 'cell' (cleared).
C21_Witness ==
  /\ selectionMouseDown
  /\ SelectedCells >= 2
  /\ \E el \in Targets :
       /\ DisallowedDrag(el, "false")
       /\ ~Called(rootMouseMove(Cur, el, "false").trace, "clearTextSelection")
       /\ DisallowedDrag(el, "cell")
       /\ Called(rootMouseMove(Cur, el, "cell").trace, "clearTextSelection")

\* the selection extension is finalised and the pointer is no longer held
Finalised(s) == ~s.inProgress /\ ~s.mouseDown

\* C22: in every reachable state, the record that the document mouseup
\* listener (for every button), the document contextmenu listener (for every
\* button) and the document touchend listener return has no selection in
\* progress and the pointer-held flag clear.
C22_DocumentEventsFinalise ==
  /\ \A e \in MouseUpInputs : Finalised(documentMouseUp(Cur, e))
  /\ \A e \in ContextMenuInputs : Finalised(documentContextMenu(Cur, e))
  /\ Finalised(documentTouchEnd(Cur))

\* the step is a cell pointer-down
IsCellMouseDown == \E e \in PointerInputs : vars' = StateOf(onCellMouseDown(Cur, e))

\* a cell pointer-over never runs the selection update with the flag clear,
\* and then leaves the selection as it is
OverUpdatesOnlyWhileHeld ==
  \A e \in PointerInputs :
    LET s == onCellMouseOver(Cur, e)
    IN /\ Called(s.trace, "handleMouseEvent") => mouseDown
       /\ ~mouseDown => s.range = range /\ s.inProgress = inProgress

\* document mouseup, document touchend and the cell context menu clear the flag
HeldFlagCleared ==
  /\ \A e \in MouseUpInputs : ~documentMouseUp(Cur, e).mouseDown
  /\ ~documentTouchEnd(Cur).mouseDown
  /\ \A e \in HoverInputs : ~onCellContextMenu(Cur, e).mouseDown

\* C23: onCellMouseOver calls handleMouseEvent only while priv.mouseDown is
\* set, and with the flag clear it changes neither the range nor the
\* in-progress mark; the flag rises only in a cell pointer-down step and is
\* clear after every document mouseup, document touchend and cell context
\* menu, so it is set only if a pointer-down occurred with none of them since.
C23_OverOnlyWhileHeld ==
  /\ [](OverUpdatesOnlyWhileHeld /\ HeldFlagCleared)
  /\ [][(~mouseDown /\ mouseDown') => IsCellMouseDown]_vars

\* C23's case: the pointer is held after a pointer-down and a pointer-over
\* on another cell extends the selection.
C23_Witness ==
  /\ mouseDown
  /\ inProgress
  /\ \E e \in PointerInputs :
       LET s == onCellMouseOver(Cur, e)
       IN Called(s.trace, "handleMouseEvent") /\ s.range # range

\* a key that passes the guards of onKeyDown, is neither a meta key nor the
\* Ctrl/Meta key itself and is pressed without Ctrl/Meta
TypedKey(e) ==
  /\ KeyHandled(e)
  /\ e.keyCode # "IME_229"
  /\ ~isMetaKey(e.keyCode)
  /\ ~isCtrlMetaKey(e.keyCode)
  /\ ~(e.ctrl /\ ~e.alt)

\* C28: for every typed key arriving while a cell is selected and there is
\* an active editor: if the editor is CLOSED, onKeyDown calls openEditor
\* with '' and returns, so that the only calls are the beforeKeyDown hook
\* and (on a cell that is not read-only) beginEditing(''), the editor of a
\* writable cell is OPEN afterwards and the selection is as before; if the
\* editor is WAITING, beginEditing is not called and the result is that of
\* the key dispatch table.
C28_TypingOpensEditor ==
  \A e \in KeyInputs :
    (TypedKey(e) /\ activeEditor # NoEditor) =>
      LET s1 == Log(Cur, <<"runHooks", "beforeKeyDown">>)
          r == onKeyDown(Cur, e)
      IN /\ activeEditor.state = "CLOSED" =>
              /\ r.range = range
              /\ r.inProgress = inProgress
              /\ r.trace = IF activeEditor.readOnly
                             THEN s1.trace
                             ELSE Append(s1.trace, <<"beginEditing", "">>)
              /\ r.activeEditor.state
                   = IF activeEditor.readOnly THEN "CLOSED" ELSE "OPEN"
         /\ activeEditor.state = "WAITING" =>
              /\ ~Called(r.trace, "beginEditing")
              /\ r = keyDispatch(s1, e)

\* C28's case: a writable cell is selected with its editor CLOSED and a key
\* is typed, which opens the editor.
C28_Witness ==
  \E e \in KeyInputs :
    /\ TypedKey(e)
    /\ activeEditor # NoEditor
    /\ activeEditor.state = "CLOSED"
    /\ ~activeEditor.readOnly
    /\ onKeyDown(Cur, e).activeEditor.state = "OPEN"

\* C28's second case: a key is typed while the editor is WAITING.
C28_WaitingReached ==
  \E e \in KeyInputs :
    TypedKey(e) /\ activeEditor # NoEditor /\ activeEditor.state = "WAITING"

\* C29: destroy() sets the destroyed flag; in every reachable state with the
\* flag set, for every key, the document keydown listener and the
\* compositionstart listener change nothing and call nothing (the keyboard
\* hook included), and a direct onKeyDown changes nothing and calls nothing
\* but the beforeKeyDown hook.
C29_DestroyedIgnoresKeys ==
  /\ destroy(Cur).destroyed
  /\ destroyed =>
       /\ compositionStart(Cur) = Cur
       /\ \A e \in KeyInputs :
            /\ documentKeyDown(Cur, e) = Cur
            /\ KeyIgnored(Cur, e)
            /\ Len(onKeyDown(Cur, e).trace) <= 1

\* C29's case: the manager is destroyed while the grid listens and a
\* writable cell is selected with its editor CLOSED, where a live manager
\* would open the editor on compositionstart and on a typed key.
C29_Witness ==
  /\ destroyed
  /\ listening
  /\ isSelected(Cur)
  /\ activeEditor # NoEditor
  /\ activeEditor.state = "CLOSED"
  /\ ~activeEditor.readOnly

\* the numeric rule: the window start..end of an axis with total lines,
\* widened by n on both sides and cut to 0..total-1
NumericRule(start, end, n, total) ==
  [start |-> IF start - n < 0 THEN 0 ELSE start - n,
   end |-> IF end + n > total - 1 THEN total - 1 ELSE end + n]

RowWindow(c) == [start |-> c.startRow, end |-> c.endRow]
ColumnWindow(c) == [start |-> c.startColumn, end |-> c.endColumn]

\* the window 10..20 on both axes
ExampleCalc ==
  [startRow |-> 10, endRow |-> 20, startColumn |-> 10, endColumn |-> 20]

\* with 100 lines, the window 10..20 and N = 5 each override leaves 5..25
NumericExample ==
  /\ RowWindow(viewportRowCalculatorOverride(ExampleCalc, 100, Number(5), 0).calc)
       = [start |-> 5, end |-> 25]
  /\ ColumnWindow(viewportColumnCalculatorOverride(ExampleCalc, 100, Number(5), 0).calc)
       = [start |-> 5, end |-> 25]

\* C24: for every calculated window, every grid size and every numeric
\* overscan N, the row override leaves the row window given by the numeric
\* rule and the column override leaves the column window given by the
\* numeric rule, whatever the fixed-pane counts; with 100 lines, the window
\* 10..20 and N = 5 each override leaves 5..25 on its axis.
C24_NumericOverscan ==
  /\ \A n \in 0..MaxOffset, fixed \in 0..1 :
       /\ RowWindow(viewportRowCalculatorOverride(calc, totalRows, Number(n), fixed).calc)
            = NumericRule(calc.startRow, calc.endRow, n, totalRows)
       /\ ColumnWindow(viewportColumnCalculatorOverride(calc, totalCols, Number(n), fixed).calc)
            = NumericRule(calc.startColumn, calc.endColumn, n, totalCols)
  /\ NumericExample

\* C24's case: a numeric overscan that is cut at line 0 on the row axis and
\* not at the last row, and cut at the last column and not at column 0.
C24_Witness ==
  \E n \in 1..MaxOffset :
    /\ calc.startRow - n < 0
    /\ calc.endRow + n < totalRows - 1
    /\ calc.startColumn - n > 0
    /\ calc.endColumn + n > totalCols - 1
    /\ RowWindow(viewportRowCalculatorOverride(calc, totalRows, Number(n), 0).calc)
         = [start |-> 0, end |-> calc.endRow + n]
    /\ ColumnWindow(viewportColumnCalculatorOverride(calc, totalCols, Number(n), 0).calc)
         = [start |-> calc.startColumn - n, end |-> totalCols - 1]

\* ceil(end / total * 12): the least k with k * total >= 12 * end
ProportionalOffset(end, total) ==
  CHOOSE k \in 0..(12 * end) :
    /\ k * total >= 12 * end
    /\ k > 0 => (k - 1) * total < 12 * end

\* the proportional rule: the numeric rule with the proportional offset
ProportionalRule(start, end, total) ==
  NumericRule(start, end, ProportionalOffset(end, total), total)

\* the window 30..40 on both axes
SecondExampleCalc ==
  [startRow |-> 30, endRow |-> 40, startColumn |-> 30, endColumn |-> 40]

\* with 100 lines, the window 30..40, 'auto' and a fixed pane each override
\* leaves 20..50, where the proportional rule would give 25..45
FixedPaneExample ==
  /\ RowWindow(viewportRowCalculatorOverride(SecondExampleCalc, 100, Auto, 1).calc)
       = [start |-> 20, end |-> 50]
  /\ ColumnWindow(viewportColumnCalculatorOverride(SecondExampleCalc, 100, Auto, 1).calc)
       = [start |-> 20, end |-> 50]
  /\ ProportionalRule(30, 40, 100) = [start |-> 25, end |-> 45]

\* C25: for every calculated window and every grid size, with the setting
\* 'auto' and a fixed pane on the axis the row override leaves the row
\* window of the numeric rule with N = 10 and the column override leaves
\* the column window of the numeric rule with N = 10; with 100 lines and
\* the window 30..40 that is 20..50, where the proportional rule would
\* give 25..45.
C25_AutoWithFixedPane ==
  /\ RowWindow(viewportRowCalculatorOverride(calc, totalRows, Auto, 1).calc)
       = NumericRule(calc.startRow, calc.endRow, 10, totalRows)
  /\ ColumnWindow(viewportColumnCalculatorOverride(calc, totalCols, Auto, 1).calc)
       = NumericRule(calc.startColumn, calc.endColumn, 10, totalCols)
  /\ FixedPaneExample

\* C25's case: a window on which the numeric rule with N = 10 and the
\* proportional rule differ, on the row axis and on the column axis, and
\* 'auto' with a fixed pane gives the former.
C25_Witness ==
  /\ NumericRule(calc.startRow, calc.endRow, 10, totalRows)
       # ProportionalRule(calc.startRow, calc.endRow, totalRows)
  /\ NumericRule(calc.startColumn, calc.endColumn, 10, totalCols)
       # ProportionalRule(calc.startColumn, calc.endColumn, totalCols)
  /\ calc.startRow > 0
  /\ RowWindow(viewportRowCalculatorOverride(calc, totalRows, Auto, 1).calc)
       = NumericRule(calc.startRow, calc.endRow, 10, totalRows)
  /\ ColumnWindow(viewportColumnCalculatorOverride(calc, totalCols, Auto, 1).calc)
       = NumericRule(calc.startColumn, calc.endColumn, 10, totalCols)

\* the row half of the proportional rule, which the row override follows
RowAutoProportional ==
  RowWindow(viewportRowCalculatorOverride(calc, totalRows, Auto, 0).calc)
    = ProportionalRule(calc.startRow, calc.endRow, totalRows)

\* C26: for every calculated window and every grid size, with the setting
\* 'auto' and no fixed pane the row override leaves the row window of the
\* proportional rule (the numeric rule with offset ceil(end / total * 12)
\* taken from the row end and the row total) and the column override leaves
\* the column window of the proportional rule taken from the column end and
\* the column total.
C26_AutoProportional ==
  /\ RowAutoProportional
  /\ ColumnWindow(viewportColumnCalculatorOverride(calc, totalCols, Auto, 0).calc)
       = ProportionalRule(calc.startColumn, calc.endColumn, totalCols)

\* C27: for every calculated window, every grid size and every overscan
\* setting (numeric, 'auto' with a fixed pane, 'auto' without), the row
\* override leaves the column start and end as they were and the column
\* override leaves the row start and end as they were.
C27_AxesIndependent ==
  \A i \in OverscanInputs :
    /\ ColumnWindow(viewportRowCalculatorOverride(calc, totalRows, i.setting, i.fixed).calc)
         = ColumnWindow(calc)
    /\ RowWindow(viewportColumnCalculatorOverride(calc, totalCols, i.setting, i.fixed).calc)
         = RowWindow(calc)

\* a window inside 0..total-1
ValidWindow(w, total) == 0 <= w.start /\ w.start <= w.end /\ w.end <= total - 1

\* window w lies inside 0..total-1 and contains window old
Widened(w, old, total) ==
  /\ 0 <= w.start
  /\ w.end <= total - 1
  /\ w.start <= old.start
  /\ w.end >= old.end

\* C30: for every overscan setting with N >= 0 ('auto' with and without a
\* fixed pane included): when the row window handed over is valid, the row
\* window the row override leaves lies inside 0..totalRows-1 and contains
\* it; the same for the column window and the column override; and each
\* override runs its after-hook exactly once, as its only hook, with the
\* calculator as the override leaves it.
C30_WindowWidenedAndNotified ==
  \A i \in OverscanInputs :
    LET r == viewportRowCalculatorOverride(calc, totalRows, i.setting, i.fixed)
        k == viewportColumnCalculatorOverride(calc, totalCols, i.setting, i.fixed)
    IN /\ ValidWindow(RowWindow(calc), totalRows)
            => Widened(RowWindow(r.calc), RowWindow(calc), totalRows)
       /\ ValidWindow(ColumnWindow(calc), totalCols)
            => Widened(ColumnWindow(k.calc), ColumnWindow(calc), totalCols)
       /\ r.trace = <<<<"runHooks", "afterViewportRowCalculatorOverride", r.calc>>>>
       /\ k.trace = <<<<"runHooks", "afterViewportColumnCalculatorOverride", k.calc>>>>

\* C30's case: valid windows on both axes, away from both ends of the row
\* axis, that a numeric overscan widens up to the last row and that 'auto'
\* widens on both axes.
C30_Witness ==
  /\ ValidWindow(RowWindow(calc), totalRows)
  /\ ValidWindow(ColumnWindow(calc), totalCols)
  /\ calc.startRow > 0
  /\ calc.endRow < totalRows - 1
  /\ calc.endRow + MaxOffset > totalRows - 1
  /\ viewportRowCalculatorOverride(calc, totalRows, Number(MaxOffset), 0).calc.endRow
       = totalRows - 1
  /\ viewportRowCalculatorOverride(calc, totalRows, Auto, 0).calc.startRow
       < calc.startRow
  /\ viewportColumnCalculatorOverride(calc, totalCols, Auto, 0).calc.endColumn
       > calc.endColumn

====
